---- MODULE Spec2Model ----
(***************************************************************************)
(* Model of raidionicsmaps/Utils/ants_registration.py: the class           *)
(* ANTsRegistration, a dispatcher over two ANTs backends ("python": the    *)
(* ANTsPy library, "cpp": the ANTs scripts and executables).               *)
(*                                                                         *)
(* reg[b]   the fields of an ANTsRegistration object whose backend is b    *)
(* disk[b]  the part of the filesystem that object touches: whether the    *)
(*          registration folder exists and which transform files exist     *)
(* last[b]  what the most recent call on that object did: the method, how  *)
(*          it ended, and the calls it made to the external toolkit        *)
(* computed[b]  history: a compute_registration call has completed with    *)
(*          every toolkit call succeeding since construction or the last   *)
(*          clear_cache                                                    *)
(***************************************************************************)
EXTENDS Integers, Sequences, FiniteSets, TLC

VARIABLES reg, disk, last, computed

vars == <<reg, disk, last, computed>>

\* Longest transform chain the toolkit is taken to produce.
MaxChain == 4

Backends == {"python", "cpp"}

\* Values of registration_method the callers pass.
Methods == {"SyN", "sq", "s", "a", "antsRegistrationSyNQuick[s]"}

\* Values of interpolation: the dispatchers' default 'nearestNeighbor', the
\* cpp methods' own default 'NearestNeighbor', 'linear' and one other
\* interpolator name.
Interpolations == {"linear", "nearestNeighbor", "NearestNeighbor", "bSpline"}

\* How the external toolkit behaves during one operation.  python: "ok" or
\* the name of the ants function that raises.  cpp: "ok", the process exits
\* with a non-zero status, or starting the process raises.
PyComputeExt == {"ok", "image_read", "registration", "apply_transforms", "image_write"}
PyApplyExt == {"ok", "image_read", "apply_transforms", "image_write"}
CppExt == {"ok", "exit_nonzero", "exception"}

ComputeExt(b) == IF b = "python" THEN PyComputeExt ELSE CppExt
ApplyExt(b) == IF b = "python" THEN PyApplyExt ELSE CppExt

----------------------------------------------------------------------------
\* Files and dictionaries

Range(s) == {s[i] : i \in 1..Len(s)}

Reverse(s) == [i \in 1..Len(s) |-> s[Len(s) + 1 - i]]

\* os.path.join(self.registration_folder, name)
InFolder(name) == [dir |-> "registration", name |-> name]

\* a file the ANTsPy library writes in the system temporary folder
InTmp(name) == [dir |-> "tmp", name |-> name]

\* self.reg_transform = {}
EmptyDict == [k \in {} |-> <<>>]

\* a registration result: {'fwdtransforms': [...], 'invtransforms': [...]}
Dict(fwd, inv) == [k \in {"fwdtransforms", "invtransforms"} |->
                     IF k = "fwdtransforms" THEN fwd ELSE inv]

\* The transform files of an ants.registration result with n transforms, in
\* the order of invtransforms: affine first, then the inverse warp, ...
TkInvNames == <<"0GenericAffine.mat", "1InverseWarp.nii.gz", "2GenericAffine.mat",
                "3InverseWarp.nii.gz", "4GenericAffine.mat", "5InverseWarp.nii.gz">>
TkFwdNames == <<"0GenericAffine.mat", "1Warp.nii.gz", "2GenericAffine.mat",
                "3Warp.nii.gz", "4GenericAffine.mat", "5Warp.nii.gz">>

\* ants.registration(fixed, moving, method) returning n transforms
ants_registration(n) ==
    Dict(Reverse([i \in 1..n |-> InTmp(TkFwdNames[i])]),
         [i \in 1..n |-> InTmp(TkInvNames[i])])

----------------------------------------------------------------------------
\* Calls to the external toolkit

ToolkitCall(kind, script, transforms, flags, mode) ==
    [kind |-> kind, script |-> script, transforms |-> transforms,
     flags |-> flags, mode |-> mode, result |-> "ok"]

image_read == ToolkitCall("image_read", "ants", <<>>, <<>>, "")
image_write == ToolkitCall("image_write", "ants", <<>>, <<>>, "")

\* The calls of plan that run when the toolkit behaves as ext: all of them
\* when nothing fails, else those up to the first call that raises.
Executed(plan, ext) ==
    LET hits == {i \in 1..Len(plan) : plan[i].kind = ext}
    IN IF hits = {} THEN plan
       ELSE LET at == CHOOSE i \in hits : \A j \in hits : i <= j
            IN [i \in 1..at |-> IF i = at THEN [plan[i] EXCEPT !.result = "exception"]
                                          ELSE plan[i]]

Failed(calls) == \E i \in 1..Len(calls) : calls[i].result # "ok"

Heavy(calls) == {i \in 1..Len(calls) : calls[i].kind \in {"registration", "apply_transforms"}}

Result(o, d, outcome, error, calls) ==
    [obj |-> o, disk |-> d, outcome |-> outcome, error |-> error, calls |-> calls]

----------------------------------------------------------------------------
\* __init__

NewObject(b) ==
    [reg_transform |-> EmptyDict,
     transform_names |-> <<>>,
     inverse_transform_names |-> <<>>,
     registration_computed |-> FALSE,
     backend |-> b]

\* os.makedirs(self.registration_folder, exist_ok=True); no transform file yet
NewDisk == [folder |-> TRUE, files |-> {}]

NoCall == [op |-> "init", outcome |-> "done", error |-> "none", calls |-> <<>>,
           interpolation |-> "", removed |-> {}]

----------------------------------------------------------------------------
\* clear_cache

\* clear_cache forgetting the inverse chain of the python backend
clear_cache_forward_only(o, d) ==
    LET held == DOMAIN o.reg_transform # {}
        fwd == IF o.backend = "python" /\ held
               THEN d.files \ Range(o.reg_transform["fwdtransforms"]) ELSE d.files
    IN IF d.folder
       THEN [folder |-> FALSE, files |-> {f \in fwd : f.dir # "registration"}]
       ELSE [folder |-> FALSE, files |-> fwd]

clear_cache(o, d) ==
    LET held == DOMAIN o.reg_transform # {}
        fwd == IF o.backend = "python" /\ held
               THEN d.files \ Range(o.reg_transform["fwdtransforms"]) ELSE d.files
        inv == IF o.backend = "python" /\ held
               THEN fwd \ Range(o.reg_transform["invtransforms"]) ELSE fwd
    IN IF d.folder
       THEN [folder |-> FALSE, files |-> {f \in inv : f.dir # "registration"}]
       ELSE [folder |-> FALSE, files |-> inv]

----------------------------------------------------------------------------
\* compute_registration

\* compute_registration_python running ants.registration a second time when
\* the first run raises
compute_registration_python_retrying(o, d, registration_method, ext, n) ==
    LET tk == ants_registration(n)
        registration == ToolkitCall("registration", "ants", <<>>, <<>>, registration_method)
        first == Executed(<<image_read, image_read, registration>>, ext)
        rest == <<registration,
                  ToolkitCall("apply_transforms", "ants", tk["fwdtransforms"],
                              <<FALSE, FALSE>>, "linear"),
                  image_write>>
        calls == IF ext = "registration" THEN first \o rest
                 ELSE Executed(first \o Tail(rest), ext)
        registered == \E i \in 1..Len(calls) :
                         calls[i].kind = "registration" /\ calls[i].result = "ok"
        o2 == IF registered THEN [o EXCEPT !.reg_transform = tk] ELSE o
        d2 == IF registered
              THEN [d EXCEPT !.files = @ \cup Range(tk["fwdtransforms"])
                                         \cup Range(tk["invtransforms"])]
              ELSE d
    IN IF Failed(calls) /\ ext # "registration"
       THEN Result(o2, d2, "raised", "ComputationFailed", calls)
       ELSE Result(o2, d2, "done", "none", calls)

compute_registration_python(o, d, registration_method, ext, n) ==
    LET method == IF registration_method \in {"antsRegistrationSyNQuick[s]",
                                              "antsRegistrationSyN[s]"}
                  THEN "SyN" ELSE registration_method
        tk == ants_registration(n)
        plan == <<image_read, image_read,
                  ToolkitCall("registration", "ants", <<>>, <<>>, method),
                  ToolkitCall("apply_transforms", "ants", tk["fwdtransforms"],
                              <<FALSE, FALSE>>, "linear"),
                  image_write>>
        calls == Executed(plan, ext)
        registered == \E i \in 1..Len(calls) :
                         calls[i].kind = "registration" /\ calls[i].result = "ok"
        o2 == IF registered THEN [o EXCEPT !.reg_transform = tk] ELSE o
        d2 == IF registered
              THEN [d EXCEPT !.files = @ \cup Range(tk["fwdtransforms"])
                                         \cup Range(tk["invtransforms"])]
              ELSE d
    IN IF Failed(calls)
       THEN Result(o2, d2, "raised", "ComputationFailed", calls)
       ELSE Result(o2, d2, "done", "none", calls)

\* the files antsRegistrationSyN[Quick].sh -t trans leaves under the prefix
ScriptOutput(trans) ==
    IF trans = "s"
    THEN {InFolder("1Warp.nii.gz"), InFolder("1InverseWarp.nii.gz"),
          InFolder("0GenericAffine.mat")}
    ELSE {InFolder("0GenericAffine.mat")}

compute_registration_cpp(o, d, registration_method, ext) ==
    LET m1 == IF registration_method = "SyN" THEN "sq" ELSE registration_method
        script_path == IF m1 = "sq" THEN "antsRegistrationSyNQuick.sh"
                                    ELSE "antsRegistrationSyN.sh"
        method == IF m1 = "sq" THEN "s" ELSE m1
        call == [ToolkitCall("registration", script_path, <<>>, <<>>, method)
                   EXCEPT !.result = ext]
        d2 == IF ext = "ok" THEN [d EXCEPT !.files = @ \cup ScriptOutput(method)] ELSE d
        o2 == IF ext # "exception" /\ method = "s"
              THEN [o EXCEPT
                      !.reg_transform = Dict(<<InFolder("1Warp.nii.gz"),
                                               InFolder("0GenericAffine.mat")>>,
                                             <<InFolder("1InverseWarp.nii.gz"),
                                               InFolder("0GenericAffine.mat")>>),
                      !.transform_names = <<"1Warp.nii.gz", "0GenericAffine.mat">>,
                      !.inverse_transform_names = <<"1InverseWarp.nii.gz",
                                                    "0GenericAffine.mat">>]
              ELSE o
    IN Result(o2, d2, "done", "none", <<call>>)

compute_registration(o, d, registration_method, ext, n) ==
    IF Len(o.transform_names) # 0 /\ Len(o.inverse_transform_names) # 0
    THEN Result(o, d, "skipped", "none", <<>>)
    ELSE LET d1 == [d EXCEPT !.folder = TRUE]
             r == IF o.backend = "python"
                  THEN compute_registration_python(o, d1, registration_method, ext, n)
                  ELSE compute_registration_cpp(o, d1, registration_method, ext)
         IN IF r.outcome = "raised" THEN r
            ELSE [r EXCEPT !.obj.registration_computed = TRUE]

----------------------------------------------------------------------------
\* apply_registration_transform

\* the '-t' arguments of the command, one [file, invert] pair per argument:
\* "-t file" or "-t [file, 1]"; <<>> when no branch builds the command
ForwardTransformArgs(transform_filenames) ==
    LET t == transform_filenames
        arg(i) == [file |-> t[i], invert |-> FALSE]
    IN CASE Len(t) = 4 -> <<arg(1), arg(2), arg(3), arg(4)>>
         [] Len(t) = 2 -> <<arg(1), arg(2)>>
         [] Len(t) = 1 -> <<arg(1)>>
         [] OTHER -> <<>>

InverseTransformArgs(transform_filenames) ==
    LET t == transform_filenames
        arg(i, inv) == [file |-> t[i], invert |-> inv]
    IN CASE Len(t) = 4 -> <<arg(1, FALSE), arg(2, TRUE), arg(3, FALSE), arg(4, TRUE)>>
         [] Len(t) = 2 -> <<arg(1, FALSE), arg(2, TRUE)>>
         [] Len(t) = 1 -> <<arg(1, TRUE)>>
         [] OTHER -> <<>>

ForwardOptimizationMethod(interpolation) ==
    IF interpolation = "linear" THEN "Linear" ELSE "NearestNeighbor"

InverseOptimizationMethod(interpolation) ==
    IF interpolation = "nearestNeighbor" THEN "NearestNeighbor" ELSE "Linear"

\* subprocess.Popen(args, ...) on the antsApplyTransforms command
ApplyCommand(args, optimization_method, ext) ==
    [ToolkitCall("apply_transforms", "antsApplyTransforms",
                 [i \in 1..Len(args) |-> args[i].file],
                 [i \in 1..Len(args) |-> args[i].invert],
                 optimization_method)
       EXCEPT !.result = ext]

apply_registration_transform_cpp(o, d, interpolation, ext) ==
    LET optimization_method == ForwardOptimizationMethod(interpolation)
    IN IF "fwdtransforms" \notin DOMAIN o.reg_transform
       THEN Result(o, d, "raised", "KeyError", <<>>)
       ELSE LET transform_filenames == o.reg_transform["fwdtransforms"]
                args == ForwardTransformArgs(transform_filenames)
            IN IF Len(transform_filenames) = 0
               THEN Result(o, d, "raised", "EmptyList", <<>>)
               ELSE IF args = <<>>
               THEN Result(o, d, "raised", "ComputationFailed", <<>>)
               ELSE IF ext = "exception"
               THEN Result(o, d, "raised", "ComputationFailed",
                           <<ApplyCommand(args, optimization_method, ext)>>)
               ELSE Result(o, d, "path", "none",
                           <<ApplyCommand(args, optimization_method, ext)>>)

apply_registration_transform_python(o, d, interpolation, ext) ==
    LET held == "fwdtransforms" \in DOMAIN o.reg_transform
        plan == IF held
                THEN <<image_read, image_read,
                       ToolkitCall("apply_transforms", "ants",
                                   o.reg_transform["fwdtransforms"],
                                   <<FALSE, FALSE>>, interpolation),
                       image_write>>
                ELSE <<image_read, image_read>>
        calls == Executed(plan, ext)
    IN IF ~held \/ Failed(calls)
       THEN Result(o, d, "raised", "ComputationFailed", calls)
       ELSE Result(o, d, "path", "none", calls)

apply_registration_transform(o, d, interpolation, ext) ==
    LET d1 == [d EXCEPT !.folder = TRUE]
    IN IF o.backend = "python"
       THEN apply_registration_transform_python(o, d1, interpolation, ext)
       ELSE apply_registration_transform_cpp(o, d1, interpolation, ext)

----------------------------------------------------------------------------
\* apply_registration_inverse_transform

apply_registration_inverse_transform_cpp(o, d, interpolation, ext) ==
    LET optimization_method == InverseOptimizationMethod(interpolation)
    IN IF "invtransforms" \notin DOMAIN o.reg_transform
       THEN Result(o, d, "raised", "KeyError", <<>>)
       ELSE LET transform_filenames == o.reg_transform["invtransforms"]
                args == InverseTransformArgs(transform_filenames)
            IN IF Len(transform_filenames) = 0
               THEN Result(o, d, "raised", "EmptyList", <<>>)
               ELSE IF args = <<>>
               THEN Result(o, d, "none", "none", <<>>)
               ELSE IF ext = "exception"
               THEN Result(o, d, "none", "none",
                           <<ApplyCommand(args, optimization_method, ext)>>)
               ELSE Result(o, d, "path", "none",
                           <<ApplyCommand(args, optimization_method, ext)>>)

apply_registration_inverse_transform_python(o, d, interpolation, ext) ==
    LET held == "invtransforms" \in DOMAIN o.reg_transform
        plan == IF held
                THEN <<image_read, image_read,
                       ToolkitCall("apply_transforms", "ants",
                                   o.reg_transform["invtransforms"],
                                   <<TRUE, FALSE>>, interpolation),
                       image_write>>
                ELSE <<image_read, image_read>>
        calls == Executed(plan, ext)
    IN IF ~held \/ Failed(calls)
       THEN Result(o, d, "none", "none", calls)
       ELSE Result(o, d, "path", "none", calls)

apply_registration_inverse_transform(o, d, interpolation, ext) ==
    LET d1 == [d EXCEPT !.folder = TRUE]
    IN IF o.backend = "python"
       THEN apply_registration_inverse_transform_python(o, d1, interpolation, ext)
       ELSE apply_registration_inverse_transform_cpp(o, d1, interpolation, ext)

----------------------------------------------------------------------------
\* One call on each object of the run.  r[b] is the Result of the call on
\* the object with backend b.

Record(op, r, interpolation) ==
    [op |-> op, outcome |-> r.outcome, error |-> r.error, calls |-> r.calls,
     interpolation |-> interpolation, removed |-> {}]

Commit(op, r, interpolation) ==
    /\ reg' = [b \in DOMAIN reg |-> r[b].obj]
    /\ disk' = [b \in DOMAIN reg |-> r[b].disk]
    /\ last' = [b \in DOMAIN reg |-> Record(op, r[b], interpolation)]

Compute ==
    \E b \in DOMAIN reg, method \in Methods, n \in 1..MaxChain :
    \E ext \in ComputeExt(b) :
       LET r == (b :> compute_registration(reg[b], disk[b], method, ext, n))
       IN /\ Commit("compute", r, "")
          /\ computed' = [computed EXCEPT ![b] =
                            IF r[b].outcome = "done" /\ ~Failed(r[b].calls)
                            THEN TRUE ELSE @]

ApplyForward ==
    \E b \in DOMAIN reg, interpolation \in Interpolations :
    \E ext \in ApplyExt(b) :
       LET r == (b :> apply_registration_transform(reg[b], disk[b], interpolation, ext))
       IN /\ Commit("apply", r, interpolation)
          /\ UNCHANGED computed

ApplyInverse ==
    \E b \in DOMAIN reg, interpolation \in Interpolations :
    \E ext \in ApplyExt(b) :
       LET r == (b :> apply_registration_inverse_transform(reg[b], disk[b],
                                                          interpolation, ext))
       IN /\ Commit("apply_inverse", r, interpolation)
          /\ UNCHANGED computed

Clear ==
    /\ disk' = [b \in DOMAIN reg |-> clear_cache(reg[b], disk[b])]
    /\ last' = [b \in DOMAIN reg |->
                  [NoCall EXCEPT !.op = "clear",
                                 !.removed = disk[b].files \ disk'[b].files]]
    /\ computed' = [b \in DOMAIN reg |-> FALSE]
    /\ UNCHANGED reg

\* One object, its backend read from SharedResources at construction.
Init ==
    \E b \in Backends :
       /\ reg = (b :> NewObject(b))
       /\ disk = (b :> NewDisk)
       /\ last = (b :> NoCall)
       /\ computed = (b :> FALSE)

Next ==
    \/ Compute
    \/ ApplyForward
    \/ ApplyInverse
    \/ Clear

Spec == Init /\ [][Next]_vars

----------------------------------------------------------------------------
\* The cpp apply methods as functions of the chain they find in
\* self.reg_transform: the object starts holding any forward chain of up to
\* MaxChain files and the matching inverse chain.

CppChainNames == {"1Warp.nii.gz", "0GenericAffine.mat"}

InverseName(name) == IF name = "1Warp.nii.gz" THEN "1InverseWarp.nii.gz" ELSE name

ChainsUpTo(k) == UNION {[1..m -> CppChainNames] : m \in 0..k}

InitChain ==
    \E names \in ChainsUpTo(MaxChain) :
       LET fwd == [i \in 1..Len(names) |-> InFolder(names[i])]
           inv == [i \in 1..Len(names) |-> InFolder(InverseName(names[i]))]
       IN /\ reg = ("cpp" :> [NewObject("cpp") EXCEPT !.reg_transform = Dict(fwd, inv)])
          /\ disk = ("cpp" :> [NewDisk EXCEPT !.files = Range(fwd) \cup Range(inv)])
          /\ last = ("cpp" :> NoCall)
          /\ computed = ("cpp" :> FALSE)

NextChain ==
    \/ ApplyForward
    \/ ApplyInverse

SpecChain == InitChain /\ [][NextChain]_vars

----------------------------------------------------------------------------
\* Two objects, one per backend, driven by the same sequence of calls with
\* the toolkit failing at the same calls.

\* One method that makes the cpp backend record a chain and one that does not.
PairMethods == {"SyN", "a"}

\* The dispatchers' default interpolation and the other one the cpp methods name.
PairInterpolations == {"nearestNeighbor", "linear"}

ExtFor(exts, fails) == IF fails THEN exts \ {"ok"} ELSE {"ok"}

PairCompute ==
    \E method \in PairMethods, fails \in BOOLEAN, n \in 1..MaxChain :
    \E ep \in ExtFor(PyComputeExt, fails), ec \in ExtFor(CppExt, fails) :
       LET ext == ("python" :> ep) @@ ("cpp" :> ec)
           r == [b \in Backends |->
                   compute_registration(reg[b], disk[b], method, ext[b], n)]
       IN /\ Commit("compute", r, "")
          /\ computed' = [b \in Backends |->
                            IF r[b].outcome = "done" /\ ~Failed(r[b].calls)
                            THEN TRUE ELSE computed[b]]

PairApplyForward ==
    \E interpolation \in PairInterpolations, fails \in BOOLEAN :
    \E ep \in ExtFor(PyApplyExt, fails), ec \in ExtFor(CppExt, fails) :
       LET ext == ("python" :> ep) @@ ("cpp" :> ec)
           r == [b \in Backends |->
                   apply_registration_transform(reg[b], disk[b], interpolation, ext[b])]
       IN /\ Commit("apply", r, interpolation)
          /\ UNCHANGED computed

PairApplyInverse ==
    \E interpolation \in PairInterpolations, fails \in BOOLEAN :
    \E ep \in ExtFor(PyApplyExt, fails), ec \in ExtFor(CppExt, fails) :
       LET ext == ("python" :> ep) @@ ("cpp" :> ec)
           r == [b \in Backends |->
                   apply_registration_inverse_transform(reg[b], disk[b],
                                                        interpolation, ext[b])]
       IN /\ Commit("apply_inverse", r, interpolation)
          /\ UNCHANGED computed

InitPair ==
    /\ reg = [b \in Backends |-> NewObject(b)]
    /\ disk = [b \in Backends |-> NewDisk]
    /\ last = [b \in Backends |-> NoCall]
    /\ computed = [b \in Backends |-> FALSE]

NextPair ==
    \/ PairCompute
    \/ PairApplyForward
    \/ PairApplyInverse
    \/ Clear

SpecPair == InitPair /\ [][NextPair]_vars

----------------------------------------------------------------------------
\* Properties

ApplyOps == {"apply", "apply_inverse"}

Operations == {"compute", "apply", "apply_inverse"}

\* the files the forward and inverse chains of an object refer to
ChainFiles(o) ==
    (IF DOMAIN o.reg_transform = {} THEN {}
     ELSE Range(o.reg_transform["fwdtransforms"])
          \cup Range(o.reg_transform["invtransforms"]))
    \cup {InFolder(name) : name \in Range(o.transform_names)
                                    \cup Range(o.inverse_transform_names)}

\* the chain an apply operation reads
ChainOf(o, op) ==
    IF op = "apply" THEN o.reg_transform["fwdtransforms"]
                    ELSE o.reg_transform["invtransforms"]

Invocations(calls, kind) == {i \in 1..Len(calls) : calls[i].kind = kind}

\* C1: once a compute_registration call has completed successfully, a later
\* compute_registration call with no clear_cache in between makes no call to
\* the toolkit and leaves the forward and inverse chains as they were.
C1_ComputeOnce ==
    [][\A b \in DOMAIN reg :
         (computed[b] /\ last'[b].op = "compute")
            => /\ last'[b].calls = <<>>
               /\ reg'[b].reg_transform = reg[b].reg_transform
               /\ reg'[b].transform_names = reg[b].transform_names
               /\ reg'[b].inverse_transform_names = reg[b].inverse_transform_names]_vars

\* C2: the compute_registration call that follows clear_cache does not return
\* early: it runs the registration again.
C2_ClearForcesRecompute ==
    [][\A b \in DOMAIN reg :
         (last[b].op = "clear" /\ last'[b].op = "compute")
            => last'[b].outcome # "skipped"]_vars

\* C3: an apply call on an object that holds no transform chain raises to the
\* caller and never starts the resampling.
C3_ApplyWithoutChainRaises ==
    [][\A b \in DOMAIN reg :
         (DOMAIN reg[b].reg_transform = {} /\ last'[b].op \in ApplyOps)
            => /\ last'[b].outcome = "raised"
               /\ Invocations(last'[b].calls, "apply_transforms") = {}]_vars

\* C4: an operation during which a toolkit call fails ends by raising the
\* computation-failed error.
C4_FailureRaises ==
    \A b \in DOMAIN reg :
       (last[b].op \in Operations /\ Failed(last[b].calls))
          => /\ last[b].outcome = "raised"
             /\ last[b].error = "ComputationFailed"

\* C5: right after clear_cache the registration folder does not exist and no
\* file the forward or inverse chain refers to exists.
C5_ClearReleasesFiles ==
    \A b \in DOMAIN reg :
       last[b].op = "clear"
          => /\ ~disk[b].folder
             /\ ChainFiles(reg[b]) \cap disk[b].files = {}

\* clear_cache has just deleted the temporary files of a python chain
C5_Witness ==
    \E b \in DOMAIN reg :
       /\ reg[b].backend = "python"
       /\ last[b].op = "clear"
       /\ DOMAIN reg[b].reg_transform # {}
       /\ Len(reg[b].reg_transform["fwdtransforms"]) >= 2
       /\ ChainFiles(reg[b]) \subseteq last[b].removed

C7_SingleExternalCall ==
    \A b \in DOMAIN reg :
       last[b].op \in Operations
          => /\ Cardinality(Heavy(last[b].calls)) <= 1
             /\ \A i \in 1..(Len(last[b].calls) - 1) : last[b].calls[i].result = "ok"

\* C7 amended: an operation invokes the registration at most once and the
\* resampling at most once, and no toolkit call follows a failed one.
C7_NoRetry ==
    \A b \in DOMAIN reg :
       last[b].op \in Operations
          => /\ Cardinality(Invocations(last[b].calls, "registration")) <= 1
             /\ Cardinality(Invocations(last[b].calls, "apply_transforms")) <= 1
             /\ \A i \in 1..(Len(last[b].calls) - 1) : last[b].calls[i].result = "ok"

\* a compute_registration call whose registration failed
C7_Witness ==
    \E b \in DOMAIN reg :
       /\ last[b].op = "compute"
       /\ \E i \in Invocations(last[b].calls, "registration") :
             last[b].calls[i].result # "ok"

\* C8: driven by the same calls with the same toolkit failures, the two
\* backends end each call the same way and hold a chain at the same times.
C8_BackendsAgree ==
    /\ last["python"].outcome = last["cpp"].outcome
    /\ (DOMAIN reg["python"].reg_transform # {}) <=> (DOMAIN reg["cpp"].reg_transform # {})

\* C9: in the python backend the invert flags passed by an apply call are as
\* many as the transforms of the chain it applies.
C9_OneFlagPerTransform ==
    \A b \in DOMAIN reg :
       (reg[b].backend = "python" /\ last[b].op \in ApplyOps)
          => \A i \in Invocations(last[b].calls, "apply_transforms") :
                Len(last[b].calls[i].flags) = Len(last[b].calls[i].transforms)

\* C10: in the cpp backend the resampling mode an apply call uses is the one
\* both apply methods select for its interpolation argument.
C10_SameModeBothDirections ==
    \A b \in DOMAIN reg :
       (reg[b].backend = "cpp" /\ last[b].op \in ApplyOps)
          => \A i \in Invocations(last[b].calls, "apply_transforms") :
                /\ last[b].calls[i].mode = ForwardOptimizationMethod(last[b].interpolation)
                /\ last[b].calls[i].mode = InverseOptimizationMethod(last[b].interpolation)

====
